---------------------------- MODULE Spec2Model ----------------------------
(***************************************************************************)
(* Conveyor belt simulation (src/main.py): Product, ConveyorBelt, Worker   *)
(* and run_simulation.                                                     *)
(*                                                                         *)
(* Representation.  A Python str is the sequence of its characters, each   *)
(* character a one-letter TLA+ string: 'AB' is <<"A","B">>.  Python's None *)
(* is the value None below, which is no sequence of characters.  Python    *)
(* lists are sequences indexed from 1, so slot index i of the source is    *)
(* i+1 here, and slots[-1] is slots[Len(slots)].                           *)
(***************************************************************************)
EXTENDS Integers, Sequences, FiniteSets, TLC

VARIABLES
    \* Product
    items,                          \* Product.items
    components,                     \* Product.components
    finished_product,               \* Product.finished_product
    \* ConveyorBelt
    slots,                          \* ConveyorBelt.slots
    belt_length,                    \* ConveyorBelt.belt_length
    belt_iterations,                \* ConveyorBelt.belt_iterations
    belt_speed,                     \* ConveyorBelt.belt_speed
    unpicked_components_counter,    \* ConveyorBelt.unpicked_components_counter
    finished_products_counter,      \* ConveyorBelt.finished_products_counter
    assembled_products_combination, \* ConveyorBelt.assembled_products_combination
    \* Worker
    workers,                        \* workers[i][k]: left_hand, right_hand, holds_finished_product
    assembly_time,                  \* Worker.assembly_time
    \* control state of run_simulation and of Worker.assemble
    caller,                         \* who calls the worker methods: run_simulation or a test
    pc,                             \* position in the code
    i,                              \* slot index of the for loop (line 284)
    k,                              \* position of `worker` in workers[i] (line 293)
    item,                           \* the local `item` read at line 290
    elapsed,                        \* time() - (end_assembly - assembly_time), whole seconds
    \* observation of the run
    iterations,                     \* belt_iterations as given to the constructor
    interactions,                   \* picks and releases made since `item` was read
    shifts,                         \* executions of line 145 since construction
    run,                            \* the number of the current call of run_simulation
    run_released,                   \* the left hands released during the current call
    last                            \* the worker method call made by the last step

vars == <<items, components, finished_product, slots, belt_length, belt_iterations,
          belt_speed, unpicked_components_counter, finished_products_counter,
          assembled_products_combination, workers, assembly_time, caller, pc, i, k,
          item, elapsed, iterations, interactions, shifts, run, run_released, last>>

product_vars == <<items, components, finished_product>>
config_vars == <<belt_length, belt_speed, assembly_time, caller, iterations, run>>

-----------------------------------------------------------------------------
(* Bounds of the model *)

MaxIterations == 6
MaxOverrun == 1
MaxHandLen == 4
MaxTestIterations == 1

-----------------------------------------------------------------------------
(* Values *)

None == <<"None">>

Str(c) == <<c>>

Other == <<"o", "t", "h", "e", "r">>

\* x in lst, for a Python list lst
InList(x, lst) == \E n \in 1..Len(lst) : lst[n] = x

\* a in b, for Python strings a and b (substring test)
InStr(a, b) == \E n \in 0..(Len(b) - Len(a)) : SubSeq(b, n + 1, n + Len(a)) = a

\* the characters of a string, each as a string of length one
Chars(s) == {Str(s[n]) : n \in 1..Len(s)}

RECURSIVE SumOver(_, _)
SumOver(f, keys) ==
    IF keys = {} THEN 0
    ELSE LET key == CHOOSE x \in keys : TRUE
         IN f[key] + SumOver(f, keys \ {key})

\* sum(counter.values())
SumValues(counter) == SumOver(counter, DOMAIN counter)

-----------------------------------------------------------------------------
(* ConveyorBelt *)

generate_counter(data) == [key \in data |-> 0]

\* the three branches of move_belt's bookkeeping, lines 130-137
CountsAsFinished(last_item) == last_item = finished_product
CountsAsComponent(last_item) ==
    /\ ~CountsAsFinished(last_item)
    /\ InList(last_item, components)

\* mutant: the last slot is not dropped
ShiftedSlots_Grows(new_item) == <<new_item>> \o slots

ShiftedSlots(new_item) == <<new_item>> \o SubSeq(slots, 1, Len(slots) - 1)

Decremented(n) == n - 1

\* lines 132-137: the counters after the item leaving the belt is counted
CountedFinished(last_item) ==
    IF CountsAsFinished(last_item)
    THEN [finished_products_counter EXCEPT ![last_item] = @ + 1]
    ELSE finished_products_counter

\* mutant: the else branch of line 136 is missing
CountedUnpicked_NoOther(last_item) ==
    IF CountsAsFinished(last_item) THEN unpicked_components_counter
    ELSE IF CountsAsComponent(last_item)
    THEN [unpicked_components_counter EXCEPT ![last_item] = @ + 1]
    ELSE unpicked_components_counter

CountedUnpicked(last_item) ==
    IF CountsAsFinished(last_item) THEN unpicked_components_counter
    ELSE IF CountsAsComponent(last_item)
    THEN [unpicked_components_counter EXCEPT ![last_item] = @ + 1]
    ELSE [unpicked_components_counter EXCEPT ![Other] = @ + 1]

move_belt(new_item) ==
    LET last_item == slots[Len(slots)] IN
    /\ finished_products_counter' = CountedFinished(last_item)
    /\ unpicked_components_counter' = CountedUnpicked(last_item)
    /\ slots' = ShiftedSlots(new_item)
    /\ shifts' = shifts + 1
    /\ belt_iterations' = Decremented(belt_iterations)

\* move_belt left by an exception raised in it: in or before the sleep of line
\* 144 ("counted"), or between lines 145 and 148 ("shifted")
move_belt_until(point, new_item) ==
    LET last_item == slots[Len(slots)] IN
    /\ finished_products_counter' = CountedFinished(last_item)
    /\ unpicked_components_counter' = CountedUnpicked(last_item)
    /\ slots' = IF point = "shifted" THEN ShiftedSlots(new_item) ELSE slots
    /\ shifts' = IF point = "shifted" THEN shifts + 1 ELSE shifts
    /\ belt_iterations' = belt_iterations

remove_component(s, slot_index) == [s EXCEPT ![slot_index] = None]

-----------------------------------------------------------------------------
(* Worker: the methods as functions of the worker's fields *)

NewWorker == [left_hand |-> None, right_hand |-> None, holds_finished_product |-> FALSE]

hands_occupied(wk) == wk.left_hand # None /\ wk.right_hand # None

\* mutant: the branch of line 191 is missing
PlaceItem_NoPrecollect(wk, it) ==
    IF wk.right_hand = None
    THEN IF wk.left_hand = None
         THEN [worker |-> [wk EXCEPT !.right_hand = it], ret |-> "True"]
         ELSE IF ~InStr(it, wk.left_hand)
         THEN [worker |-> [wk EXCEPT !.right_hand = it], ret |-> "True"]
         ELSE [worker |-> wk, ret |-> "False"]
    ELSE IF wk.left_hand = None
    THEN IF ~InStr(it, wk.right_hand)
         THEN [worker |-> [wk EXCEPT !.left_hand = it], ret |-> "True"]
         ELSE [worker |-> wk, ret |-> "False"]
    ELSE [worker |-> wk, ret |-> "True"]

\* mutant: with both hands empty the item goes to the left hand
PlaceItem_LeftFirst(wk, it) ==
    IF wk.right_hand = None
    THEN IF wk.holds_finished_product
         THEN [worker |-> [wk EXCEPT !.right_hand = it], ret |-> "True"]
         ELSE IF wk.left_hand = None
         THEN [worker |-> [wk EXCEPT !.left_hand = it], ret |-> "True"]
         ELSE IF ~InStr(it, wk.left_hand)
         THEN [worker |-> [wk EXCEPT !.right_hand = it], ret |-> "True"]
         ELSE [worker |-> wk, ret |-> "False"]
    ELSE IF wk.left_hand = None
    THEN IF ~InStr(it, wk.right_hand)
         THEN [worker |-> [wk EXCEPT !.left_hand = it], ret |-> "True"]
         ELSE [worker |-> wk, ret |-> "False"]
    ELSE [worker |-> wk, ret |-> "True"]

\* mutant: the tests of lines 195 and 205 for a component already held are missing
PlaceItem_NoHeldTest(wk, it) ==
    IF wk.right_hand = None
    THEN [worker |-> [wk EXCEPT !.right_hand = it], ret |-> "True"]
    ELSE IF wk.left_hand = None
    THEN [worker |-> [wk EXCEPT !.left_hand = it], ret |-> "True"]
    ELSE [worker |-> wk, ret |-> "True"]

\* pick_item, lines 188-210, after the three early returns
PlaceItem(wk, it) ==
    IF wk.right_hand = None
    THEN IF wk.holds_finished_product
         THEN [worker |-> [wk EXCEPT !.right_hand = it], ret |-> "True"]
         ELSE IF wk.left_hand = None
         THEN [worker |-> [wk EXCEPT !.right_hand = it], ret |-> "True"]
         ELSE IF ~InStr(it, wk.left_hand)
         THEN [worker |-> [wk EXCEPT !.right_hand = it], ret |-> "True"]
         ELSE [worker |-> wk, ret |-> "False"]
    ELSE IF wk.left_hand = None
    THEN IF ~InStr(it, wk.right_hand)
         THEN [worker |-> [wk EXCEPT !.left_hand = it], ret |-> "True"]
         ELSE [worker |-> wk, ret |-> "False"]
    ELSE [worker |-> wk, ret |-> "True"]

\* mutant: the test of line 185 is missing
pick_item_NoOccupiedTest(wk, it) ==
    IF it = finished_product THEN [worker |-> wk, ret |-> "False"]
    ELSE IF ~InList(it, components) THEN [worker |-> wk, ret |-> "False"]
    ELSE PlaceItem(wk, it)

pick_item(wk, it) ==
    IF it = finished_product THEN [worker |-> wk, ret |-> "False"]
    ELSE IF ~InList(it, components) THEN [worker |-> wk, ret |-> "False"]
    ELSE IF hands_occupied(wk) THEN [worker |-> wk, ret |-> "False"]
    ELSE PlaceItem(wk, it)

\* mutant: the test for a repeated character is missing
Inconsistent_NoRepeatTest(left_hand) ==
    ~(\A c \in Chars(left_hand) : InList(c, components))

\* the condition under which assembled_finished_product raises, lines 216-220
Inconsistent(left_hand) ==
    \/ ~(\A c \in Chars(left_hand) : InList(c, components))
    \/ Cardinality(Chars(left_hand)) # Len(left_hand)

\* mutant: the length test is off by one
IsComplete_OffByOne(left_hand) == Len(left_hand) >= Len(components) - 1

IsComplete(left_hand) == Len(left_hand) = Len(components)

\* "True", "False", or "InconsistentProduct" when the exception is raised
assembled_finished_product(wk) ==
    IF wk.left_hand = None THEN "False"
    ELSE IF Inconsistent(wk.left_hand) THEN "InconsistentProduct"
    ELSE IF IsComplete(wk.left_hand) THEN "True" ELSE "False"

\* mutant: both hands are reset
reset_left_hand_Both(wk) ==
    [wk EXCEPT !.left_hand = None, !.right_hand = None, !.holds_finished_product = FALSE]

reset_left_hand(wk) == [wk EXCEPT !.left_hand = None, !.holds_finished_product = FALSE]

\* mutant: the test of holds_finished_product is missing
CanAssemble_NoFlagTest(wk) == hands_occupied(wk)

\* assemble returns None at line 236 unless this holds
CanAssemble(wk) == hands_occupied(wk) /\ ~wk.holds_finished_product

\* mutant: the hands are joined the other way round
Joined_Reversed(wk) ==
    [wk EXCEPT !.left_hand = wk.right_hand \o wk.left_hand, !.right_hand = None]

\* mutant: the right hand is not emptied
Joined_KeepsRight(wk) == [wk EXCEPT !.left_hand = wk.left_hand \o wk.right_hand]

\* lines 238-239
Joined(wk) == [wk EXCEPT !.left_hand = wk.left_hand \o wk.right_hand, !.right_hand = None]

\* line 261
ProductType(wk) ==
    IF Len(wk.left_hand) = Len(components) THEN "finished" ELSE "intermediate"

\* release_finished_product: the worker, the slots and the results after the
\* call, and the strings released in the current run
release_finished_product(wk, s, results, slot_index) ==
    IF ~wk.holds_finished_product
    THEN [worker |-> wk, slots |-> s, results |-> results, run_released |-> run_released,
          ret |-> "False"]
    ELSE [worker |-> reset_left_hand(wk),
          slots |-> [s EXCEPT ![slot_index] = finished_product],
          results |-> Append(results, wk.left_hand),
          run_released |-> Append(run_released, wk.left_hand),
          ret |-> "True"]


-----------------------------------------------------------------------------
(* run_simulation, lines 275-313 *)

NoCall == [op |-> "none", slot |-> 0, k |-> 0, item |-> None, ret |-> "None",
           before |-> NewWorker, slot_before |-> None, shifts_before |-> 0]

Call(op, slot_index, n, it, ret) ==
    [op |-> op, slot |-> slot_index, k |-> n, item |-> it, ret |-> ret,
     before |-> workers[slot_index][n], slot_before |-> slots[slot_index],
     shifts_before |-> shifts]

\* random.choice(self.items), line 93
Choices == {items[n] : n \in 1..Len(items)}

\* line 310: worker.holds_finished_product = worker.assembled_finished_product()
Raises(wk) == assembled_finished_product(wk) = "InconsistentProduct"

\* mutant: the assignment of line 310 is missing
UpdateStatus_Missing(wk) == wk

UpdateStatus(wk) ==
    IF Raises(wk) THEN wk
    ELSE [wk EXCEPT !.holds_finished_product = (assembled_finished_product(wk) = "True")]

\* mutant: the exception of line 310 is swallowed and the loop goes on
AfterStatus_Swallowed(wk) == "worker"

\* where control is after line 310: an exception leaves run_simulation
AfterStatus(wk) == IF Raises(wk) THEN "raised" ELSE "worker"

\* the while condition, line 281
Continue == belt_iterations > 0

\* the special handling of lines 255 and 287
Exhausted(n) == n = 0

\* the time on the clock after one more move_belt: sleep(belt_speed) takes
\* belt_speed seconds; without a sleep the loop runs against the wall clock,
\* which may or may not have advanced.  A run that overshot its budget is
\* followed for MaxOverrun ticks without the clock advancing.
ClockAfterTick ==
    IF belt_speed > 0 THEN {elapsed + belt_speed}
    ELSE IF belt_iterations > -MaxOverrun THEN elapsed..assembly_time
    ELSE (elapsed + 1)..assembly_time

\* line 250
Assembling == elapsed < assembly_time

\* mutant: the worker loop does not advance
NextWorker_Stuck(n) == n

NextWorker(n) == n + 1
NextSlot(n) == n + 1

\* lines 281-282
Tick ==
    /\ pc = "while"
    /\ Continue
    /\ \E new_item \in Choices : move_belt(new_item)
    /\ pc' = "for"
    /\ i' = 1
    /\ last' = NoCall
    /\ UNCHANGED <<product_vars, config_vars, run_released,
                   assembled_products_combination, workers,
                   k, item, elapsed, interactions>>

\* lines 281, 313
Return ==
    /\ pc = "while"
    /\ ~Continue
    /\ pc' = "done"
    /\ last' = NoCall
    /\ UNCHANGED <<product_vars, config_vars, run_released, shifts, slots, belt_iterations,
                   unpicked_components_counter, finished_products_counter,
                   assembled_products_combination, workers, i, k, item, elapsed,
                   interactions>>

\* line 284, the range is exhausted
ForEnd ==
    /\ pc = "for"
    /\ i > belt_length
    /\ pc' = "while"
    /\ last' = NoCall
    /\ UNCHANGED <<product_vars, config_vars, run_released, shifts, slots, belt_iterations,
                   unpicked_components_counter, finished_products_counter,
                   assembled_products_combination, workers, i, k, item, elapsed,
                   interactions>>

\* lines 287-288
ForBreak ==
    /\ pc = "for"
    /\ i <= belt_length
    /\ Exhausted(belt_iterations)
    /\ pc' = "while"
    /\ last' = NoCall
    /\ UNCHANGED <<product_vars, config_vars, run_released, shifts, slots, belt_iterations,
                   unpicked_components_counter, finished_products_counter,
                   assembled_products_combination, workers, i, k, item, elapsed,
                   interactions>>

\* lines 290-293
VisitSlot ==
    /\ pc = "for"
    /\ i <= belt_length
    /\ ~Exhausted(belt_iterations)
    /\ item' = slots[i]
    /\ k' = 1
    /\ interactions' = 0
    /\ pc' = "worker"
    /\ last' = NoCall
    /\ UNCHANGED <<product_vars, config_vars, run_released, shifts, slots, belt_iterations,
                   unpicked_components_counter, finished_products_counter,
                   assembled_products_combination, workers, i, elapsed>>

\* line 293, the workers of the slot are exhausted
WorkersDone ==
    /\ pc = "worker"
    /\ k > Len(workers[i])
    /\ i' = NextSlot(i)
    /\ pc' = "for"
    /\ last' = NoCall
    /\ UNCHANGED <<product_vars, config_vars, run_released, shifts, slots, belt_iterations,
                   unpicked_components_counter, finished_products_counter,
                   assembled_products_combination, workers, k, item, elapsed,
                   interactions>>

\* line 294 and assemble's lines 235-243, when the worker is eligible
AssembleStart ==
    /\ pc = "worker"
    /\ k <= Len(workers[i])
    /\ CanAssemble(workers[i][k])
    /\ workers' = [workers EXCEPT ![i][k] = Joined(@)]
    /\ elapsed' = 0
    /\ pc' = "assembling"
    /\ last' = Call("assemble", i, k, None, "pending")
    /\ UNCHANGED <<product_vars, config_vars, run_released, shifts, slots, belt_iterations,
                   unpicked_components_counter, finished_products_counter,
                   assembled_products_combination, i, k, item, interactions>>

\* lines 250-256: one pass of assemble's while loop
AssembleTick ==
    /\ pc = "assembling"
    /\ Assembling
    /\ \E new_item \in Choices : move_belt(new_item)
    /\ elapsed' \in ClockAfterTick
    /\ pc' = IF Exhausted(belt_iterations') THEN "assembled" ELSE "assembling"
    /\ UNCHANGED <<product_vars, config_vars, run_released,
                   assembled_products_combination, workers,
                   i, k, item, interactions, last>>

\* assemble's loop has ended (lines 250, 256)
AssembleEnded == pc = "assembled" \/ (pc = "assembling" /\ ~Assembling)

\* lines 258-261 of assemble, then lines 295-296 and 310 of run_simulation
AssembleReturn ==
    /\ caller = "run_simulation"
    /\ AssembleEnded
    /\ workers' = [workers EXCEPT ![i][k] = UpdateStatus(@)]
    /\ last' = [last EXCEPT !.ret = ProductType(workers[i][k])]
    /\ pc' = AfterStatus(workers[i][k])
    /\ k' = IF Raises(workers[i][k]) THEN k ELSE NextWorker(k)
    /\ UNCHANGED <<product_vars, config_vars, run_released, shifts, slots, belt_iterations,
                   unpicked_components_counter, finished_products_counter,
                   assembled_products_combination, i, item, elapsed, interactions>>

\* lines 298-299 and 310
Release ==
    /\ pc = "worker"
    /\ k <= Len(workers[i])
    /\ ~CanAssemble(workers[i][k])
    /\ item = None
    /\ LET r == release_finished_product(workers[i][k], slots,
                                         assembled_products_combination, i)
       IN /\ slots' = r.slots
          /\ assembled_products_combination' = r.results
          /\ run_released' = r.run_released
          /\ workers' = [workers EXCEPT ![i][k] = UpdateStatus(r.worker)]
          /\ last' = Call("release", i, k, None, r.ret)
          /\ interactions' = IF r.ret = "True" THEN interactions + 1 ELSE interactions
          /\ pc' = AfterStatus(r.worker)
          /\ k' = IF Raises(r.worker) THEN k ELSE NextWorker(k)
    /\ UNCHANGED <<product_vars, config_vars, shifts, belt_iterations,
                   unpicked_components_counter, finished_products_counter,
                   i, item, elapsed>>

\* lines 300-310, the pick succeeds
Pick ==
    /\ pc = "worker"
    /\ k <= Len(workers[i])
    /\ ~CanAssemble(workers[i][k])
    /\ item # None
    /\ LET r == pick_item(workers[i][k], item)
       IN /\ r.ret = "True"
          /\ slots' = remove_component(slots, i)
          /\ workers' = [workers EXCEPT ![i][k] = UpdateStatus(r.worker)]
          /\ last' = Call("pick", i, k, item, r.ret)
          /\ interactions' = interactions + 1
          /\ pc' = AfterStatus(r.worker)
          /\ k' = IF Raises(r.worker) THEN k ELSE NextWorker(k)
    /\ UNCHANGED <<product_vars, config_vars, run_released, shifts, belt_iterations,
                   unpicked_components_counter, finished_products_counter,
                   assembled_products_combination, i, item, elapsed>>

\* lines 300-303, the pick fails and the worker loop is left
PickRefused ==
    /\ pc = "worker"
    /\ k <= Len(workers[i])
    /\ ~CanAssemble(workers[i][k])
    /\ item # None
    /\ LET r == pick_item(workers[i][k], item)
       IN /\ r.ret = "False"
          /\ workers' = [workers EXCEPT ![i][k] = r.worker]
          /\ last' = Call("pick", i, k, item, r.ret)
    /\ i' = NextSlot(i)
    /\ pc' = "for"
    /\ UNCHANGED <<product_vars, config_vars, run_released, shifts, slots, belt_iterations,
                   unpicked_components_counter, finished_products_counter,
                   assembled_products_combination, k, item, elapsed, interactions>>

-----------------------------------------------------------------------------
(* Construction: main lines 332-344, tests/base.py lines 25-36 *)

A == Str("A")
B == Str("B")
C == Str("C")
D == Str("D")
P == Str("P")

\* valid catalogs: the components, and the items that enter the belt
Catalogs ==
    { [components |-> <<A, B>>, items |-> <<A, B, D, None>>],
      [components |-> <<A, B, C>>, items |-> <<A, B, C, None>>] }

\* the belts and crews a run is checked on: one or two slots, one or two
\* workers at each
Layouts == [belt_length : {1, 2}, workers_per_slot : {1, 2}]

\* seconds per belt move and seconds per assembly: no nested move; one and two
\* nested moves paced by sleep; an assembly timed against a belt that does not
\* sleep (the setting of tests/base.py)
Timings ==
    { [belt_speed |-> 0, assembly_time |-> 0],
      [belt_speed |-> 1, assembly_time |-> 1],
      [belt_speed |-> 1, assembly_time |-> 2],
      [belt_speed |-> 0, assembly_time |-> 1] }

Constructed(wps) ==
    /\ slots = [n \in 1..belt_length |-> None]
    /\ unpicked_components_counter =
          generate_counter({components[n] : n \in 1..Len(components)} \cup {Other})
    /\ finished_products_counter = generate_counter({finished_product})
    /\ assembled_products_combination = <<>>
    /\ workers = [n \in 1..belt_length |-> [m \in 1..wps |-> NewWorker]]

Init ==
    /\ \E cat \in Catalogs : components = cat.components /\ items = cat.items
    /\ finished_product = P
    /\ belt_iterations \in 1..MaxIterations
    /\ \E timing \in Timings :
          belt_speed = timing.belt_speed /\ assembly_time = timing.assembly_time
    /\ \E layout \in Layouts :
          belt_length = layout.belt_length /\ Constructed(layout.workers_per_slot)
    /\ iterations = belt_iterations
    /\ caller = "run_simulation"
    /\ pc = "while"
    /\ i = 1
    /\ k = 1
    /\ item = None
    /\ elapsed = 0
    /\ interactions = 0
    /\ shifts = 0
    /\ run = 1
    /\ run_released = <<>>
    /\ last = NoCall

Next ==
    \/ Tick
    \/ Return
    \/ ForEnd
    \/ ForBreak
    \/ VisitSlot
    \/ WorkersDone
    \/ AssembleStart
    \/ AssembleTick
    \/ AssembleReturn
    \/ Release
    \/ Pick
    \/ PickRefused

Spec == Init /\ [][Next]_vars

-----------------------------------------------------------------------------
(* The worker methods called directly, as the tests of src/tests/test_worker.py *)
(* do: a worker of a constructed factory is given its hands, then one method is *)
(* called on it.                                                                *)

X == Str("X")

\* the characters a test writes into a hand: the components and a foreign one
HandAlphabet == {"A", "B", "C", "D"}

RECURSIVE StringsOfLen(_)
StringsOfLen(n) ==
    IF n = 0 THEN {<<>>}
    ELSE {Append(s, c) : s \in StringsOfLen(n - 1), c \in HandAlphabet}

LeftHands == {None} \cup UNION {StringsOfLen(n) : n \in 1..MaxHandLen}
RightHands == {None} \cup StringsOfLen(1)

\* holds_finished_product is False after construction and is set only by
\* line 310, so it is True only over a left hand that passed the check
TestWorkers ==
    {wk \in [left_hand : LeftHands, right_hand : RightHands,
             holds_finished_product : BOOLEAN] :
        wk.holds_finished_product => assembled_finished_product(wk) = "True"}

\* what a test offers to pick_item
Offers == Choices \cup {finished_product, X}

TestInit ==
    /\ components = <<A, B, C>>
    /\ items = <<A, B, C, D, None>>
    /\ finished_product = P
    /\ belt_length = 1
    /\ belt_iterations \in 1..MaxTestIterations
    /\ \E timing \in Timings :
          belt_speed = timing.belt_speed /\ assembly_time = timing.assembly_time
    /\ \E wk \in TestWorkers :
          /\ slots = [n \in 1..belt_length |-> None]
          /\ unpicked_components_counter =
                generate_counter({components[n] : n \in 1..Len(components)} \cup {Other})
          /\ finished_products_counter = generate_counter({finished_product})
          /\ assembled_products_combination = <<>>
          /\ workers = [n \in 1..belt_length |-> <<wk>>]
    /\ iterations = belt_iterations
    /\ caller = "test"
    /\ pc = "test"
    /\ i = 1
    /\ k = 1
    /\ item = None
    /\ elapsed = 0
    /\ interactions = 0
    /\ shifts = 0
    /\ run = 1
    /\ run_released = <<>>
    /\ last = NoCall

\* worker.pick_item(item)
TestPick ==
    /\ pc = "test"
    /\ pc' = "tested"
    /\ \E it \in Offers :
          LET r == pick_item(workers[i][k], it)
          IN /\ workers' = [workers EXCEPT ![i][k] = r.worker]
             /\ last' = Call("pick", i, k, it, r.ret)
    /\ UNCHANGED <<product_vars, config_vars, run_released, shifts, slots, belt_iterations,
                   unpicked_components_counter, finished_products_counter,
                   assembled_products_combination, i, k, item, elapsed,
                   interactions>>

\* worker.assemble() on a worker that is not eligible: line 236
TestAssembleNothing ==
    /\ pc = "test"
    /\ pc' = "tested"
    /\ ~CanAssemble(workers[i][k])
    /\ last' = Call("assemble", i, k, None, "None")
    /\ UNCHANGED <<product_vars, config_vars, run_released, shifts, slots, belt_iterations,
                   unpicked_components_counter, finished_products_counter,
                   assembled_products_combination, workers, i, k, item, elapsed,
                   interactions>>

\* worker.assemble() on an eligible worker: lines 238-243
TestAssembleStart ==
    /\ pc = "test"
    /\ CanAssemble(workers[i][k])
    /\ Len(workers[i][k].left_hand) < MaxHandLen
    /\ workers' = [workers EXCEPT ![i][k] = Joined(@)]
    /\ elapsed' = 0
    /\ pc' = "assembling"
    /\ last' = Call("assemble", i, k, None, "pending")
    /\ UNCHANGED <<product_vars, config_vars, run_released, shifts, slots, belt_iterations,
                   unpicked_components_counter, finished_products_counter,
                   assembled_products_combination, i, k, item, interactions>>

\* lines 258-261 of assemble, back in the test
TestAssembleReturn ==
    /\ caller = "test"
    /\ AssembleEnded
    /\ last' = [last EXCEPT !.ret = ProductType(workers[i][k])]
    /\ pc' = "tested"
    /\ UNCHANGED <<product_vars, config_vars, run_released, shifts, slots, belt_iterations,
                   unpicked_components_counter, finished_products_counter,
                   assembled_products_combination, workers, i, k, item, elapsed,
                   interactions>>

\* worker.assembled_finished_product()
TestCheck ==
    /\ pc = "test"
    /\ pc' = "tested"
    /\ last' = Call("check", i, k, None, assembled_finished_product(workers[i][k]))
    /\ UNCHANGED <<product_vars, config_vars, run_released, shifts, slots, belt_iterations,
                   unpicked_components_counter, finished_products_counter,
                   assembled_products_combination, workers, i, k, item, elapsed,
                   interactions>>

\* worker.release_finished_product(slot_index)
TestRelease ==
    /\ pc = "test"
    /\ pc' = "tested"
    /\ LET r == release_finished_product(workers[i][k], slots,
                                         assembled_products_combination, i)
       IN /\ slots' = r.slots
          /\ assembled_products_combination' = r.results
          /\ run_released' = r.run_released
          /\ workers' = [workers EXCEPT ![i][k] = r.worker]
          /\ last' = Call("release", i, k, None, r.ret)
    /\ UNCHANGED <<product_vars, config_vars, shifts, belt_iterations,
                   unpicked_components_counter, finished_products_counter,
                   i, k, item, elapsed, interactions>>

TestNext ==
    \/ TestPick
    \/ TestAssembleNothing
    \/ TestAssembleStart
    \/ AssembleTick
    \/ TestAssembleReturn
    \/ TestCheck
    \/ TestRelease

TestSpec == TestInit /\ [][TestNext]_vars

-----------------------------------------------------------------------------
(* run_simulation called on the worker of a one-slot belt whose hands the     *)
(* caller has set, as the tests of src/tests/test_worker.py set them          *)

MaxGivenIterations == 3
MaxGivenHandLen == 2

\* the workers a caller passes: hands set as a test sets them, the left hand of
\* at most MaxGivenHandLen characters
GivenWorkers ==
    {wk \in TestWorkers : wk.left_hand = None \/ Len(wk.left_hand) <= MaxGivenHandLen}

GivenInit ==
    /\ \E cat \in Catalogs : components = cat.components /\ items = cat.items
    /\ finished_product = P
    /\ belt_length = 1
    /\ belt_iterations \in 2..MaxGivenIterations
    /\ \E timing \in Timings :
          belt_speed = timing.belt_speed /\ assembly_time = timing.assembly_time
    /\ \E wk \in GivenWorkers :
          /\ slots = [n \in 1..belt_length |-> None]
          /\ unpicked_components_counter =
                generate_counter({components[n] : n \in 1..Len(components)} \cup {Other})
          /\ finished_products_counter = generate_counter({finished_product})
          /\ assembled_products_combination = <<>>
          /\ workers = [n \in 1..belt_length |-> <<wk>>]
    /\ iterations = belt_iterations
    /\ caller = "run_simulation"
    /\ pc = "while"
    /\ i = 1
    /\ k = 1
    /\ item = None
    /\ elapsed = 0
    /\ interactions = 0
    /\ shifts = 0
    /\ run = 1
    /\ run_released = <<>>
    /\ last = NoCall

GivenSpec == GivenInit /\ [][Next]_vars

-----------------------------------------------------------------------------
(* A run that a KeyboardInterrupt may end (main, lines 346-352).  Python      *)
(* raises it in the main thread at the next bytecode or in a blocking sleep,  *)
(* so it may leave a method anywhere between two of its statements.           *)

MaxInterruptIterations == 4

Running == pc \in {"while", "for", "worker", "assembling", "assembled"}

\* the interrupt arrives between two steps of the run
InterruptBetween ==
    /\ Running
    /\ pc' = "interrupted"
    /\ UNCHANGED <<product_vars, config_vars, run_released, shifts, slots, belt_iterations,
                   unpicked_components_counter, finished_products_counter,
                   assembled_products_combination, workers, i, k, item, elapsed,
                   interactions, last>>

\* the interrupt arrives inside move_belt, called at line 282 or at line 252
InterruptInMoveBelt ==
    /\ \/ pc = "while" /\ Continue
       \/ pc = "assembling" /\ Assembling
    /\ \E point \in {"counted", "shifted"} :
          \E new_item \in Choices : move_belt_until(point, new_item)
    /\ pc' = "interrupted"
    /\ UNCHANGED <<product_vars, config_vars, run_released,
                   assembled_products_combination, workers,
                   i, k, item, elapsed, interactions, last>>

\* the interrupt arrives after pick_item returned True (line 301) and before
\* remove_component (line 307)
InterruptInPick ==
    /\ pc = "worker"
    /\ k <= Len(workers[i])
    /\ ~CanAssemble(workers[i][k])
    /\ item # None
    /\ LET r == pick_item(workers[i][k], item)
       IN /\ r.ret = "True"
          /\ workers' = [workers EXCEPT ![i][k] = r.worker]
          /\ last' = Call("pick", i, k, item, r.ret)
    /\ pc' = "interrupted"
    /\ UNCHANGED <<product_vars, config_vars, run_released, shifts, slots, belt_iterations,
                   unpicked_components_counter, finished_products_counter,
                   assembled_products_combination, i, k, item, elapsed, interactions>>

InterruptInit ==
    /\ \E cat \in Catalogs : components = cat.components /\ items = cat.items
    /\ finished_product = P
    /\ belt_iterations \in 1..MaxInterruptIterations
    /\ \E timing \in Timings :
          belt_speed = timing.belt_speed /\ assembly_time = timing.assembly_time
    /\ \E layout \in Layouts :
          belt_length = layout.belt_length /\ Constructed(layout.workers_per_slot)
    /\ iterations = belt_iterations
    /\ caller = "run_simulation"
    /\ pc = "while"
    /\ i = 1
    /\ k = 1
    /\ item = None
    /\ elapsed = 0
    /\ interactions = 0
    /\ shifts = 0
    /\ run = 1
    /\ run_released = <<>>
    /\ last = NoCall

InterruptNext ==
    \/ Next
    \/ InterruptBetween
    \/ InterruptInMoveBelt
    \/ InterruptInPick

InterruptSpec == InterruptInit /\ [][InterruptNext]_vars

-----------------------------------------------------------------------------
(* run_simulation called a second time, on a belt and workers built anew, as  *)
(* each test builds its Factory.  ConveyorBelt.assembled_products_combination *)
(* is an attribute of the class (line 97): there is one list for all belts.   *)

MaxRuns == 2
MaxFirstIterations == 5
MaxNextIterations == 2

\* a new Factory, and the call of run_simulation on its belt and workers
NextRun ==
    /\ pc = "done"
    /\ run < MaxRuns
    /\ run' = run + 1
    /\ belt_iterations' \in 1..MaxNextIterations
    /\ iterations' = belt_iterations'
    /\ slots' = [n \in 1..belt_length |-> None]
    /\ unpicked_components_counter' =
          generate_counter({components[n] : n \in 1..Len(components)} \cup {Other})
    /\ finished_products_counter' = generate_counter({finished_product})
    /\ workers' = [n \in 1..belt_length |-> [m \in 1..Len(workers[n]) |-> NewWorker]]
    /\ run_released' = <<>>
    /\ pc' = "while"
    /\ i' = 1
    /\ k' = 1
    /\ item' = None
    /\ elapsed' = 0
    /\ interactions' = 0
    /\ shifts' = 0
    /\ last' = NoCall
    /\ UNCHANGED <<product_vars, belt_length, belt_speed, assembly_time, caller,
                   assembled_products_combination>>

RunsInit ==
    /\ \E cat \in Catalogs : components = cat.components /\ items = cat.items
    /\ finished_product = P
    /\ belt_iterations \in 1..MaxFirstIterations
    /\ \E timing \in Timings :
          belt_speed = timing.belt_speed /\ assembly_time = timing.assembly_time
    /\ \E layout \in Layouts :
          belt_length = layout.belt_length /\ Constructed(layout.workers_per_slot)
    /\ iterations = belt_iterations
    /\ caller = "run_simulation"
    /\ pc = "while"
    /\ i = 1
    /\ k = 1
    /\ item = None
    /\ elapsed = 0
    /\ interactions = 0
    /\ shifts = 0
    /\ run = 1
    /\ run_released = <<>>
    /\ last = NoCall

RunsNext ==
    \/ Next
    \/ NextRun

RunsSpec == RunsInit /\ [][RunsNext]_vars

-----------------------------------------------------------------------------
(* Product.validate, lines 55-90, called on a Product before the belt and the *)
(* workers are built (line 339)                                               *)

MaxComponents == 2

\* the letters and digits of the configurations below
AlnumChars == {"A", "B", "C", "P", "1"}

\* str.isalnum(): at least one character, and every character a letter or digit
isalnum(s) == Len(s) > 0 /\ \A n \in 1..Len(s) : s[n] \in AlnumChars

\* mutant: the test for a duplicate is missing
ComponentFault_NoDuplicateTest(component) ==
    IF component = None THEN "InvalidComponent"
    ELSE IF ~isalnum(component) THEN "InvalidComponent"
    ELSE IF Len(component) # 1 THEN "InvalidComponent"
    ELSE IF component = finished_product THEN "InvalidComponent"
    ELSE IF ~InList(component, items) THEN "InvalidComponent"
    ELSE "None"

\* the body of the loop of lines 63-76: the exception it raises, or "None"
ComponentFault(component) ==
    IF component = None THEN "InvalidComponent"
    ELSE IF ~isalnum(component) THEN "InvalidComponent"
    ELSE IF Len(component) # 1 THEN "InvalidComponent"
    ELSE IF component = finished_product THEN "InvalidComponent"
    ELSE IF ~InList(component, items) THEN "InvalidComponent"
    ELSE IF Cardinality({n \in 1..Len(components) : components[n] = component}) # 1
    THEN "DuplicateComponent"
    ELSE "None"

\* lines 59-76: the exception raised, or "None"
validate_supplied_components ==
    IF ~isalnum(finished_product) THEN "ValueError"
    ELSE LET faulty == {n \in 1..Len(components) : ComponentFault(components[n]) # "None"}
         IN IF faulty = {} THEN "None"
            ELSE ComponentFault(components[CHOOSE n \in faulty : \A m \in faulty : n <= m])

\* mutant: the test of line 56 is inverted
validate_empty_slot_Inverted ==
    IF InList(None, items) THEN "EmptySlotRequired" ELSE "None"

\* lines 55-57
validate_empty_slot ==
    IF ~InList(None, items) THEN "EmptySlotRequired" ELSE "None"

\* the exception that ends the try block of lines 79-81, or "None"
validate ==
    IF validate_supplied_components # "None" THEN validate_supplied_components
    ELSE validate_empty_slot

\* the exceptions validate catches and turns into exit(ERROR_CODE), lines 82-90
Caught == {"InvalidComponent", "EmptySlotRequired", "DuplicateComponent"}

Validated(outcome) == [NoCall EXCEPT !.op = "validate", !.ret = outcome]

\* a caller validates, and validates again
AfterValidate(p) == IF p = "config" THEN "validated" ELSE "revalidated"

\* validate returns
ValidateReturns ==
    /\ pc \in {"config", "validated", "revalidated"}
    /\ validate = "None"
    /\ pc' = AfterValidate(pc)
    /\ last' = Validated(validate)
    /\ UNCHANGED <<product_vars, config_vars, run_released, shifts, slots, belt_iterations,
                   unpicked_components_counter, finished_products_counter,
                   assembled_products_combination, workers, i, k, item, elapsed,
                   interactions>>

\* lines 82-90: the exception is logged and the process exits
ValidateExits ==
    /\ pc = "config"
    /\ validate \in Caught
    /\ pc' = "exited"
    /\ last' = Validated(validate)
    /\ UNCHANGED <<product_vars, config_vars, run_released, shifts, slots, belt_iterations,
                   unpicked_components_counter, finished_products_counter,
                   assembled_products_combination, workers, i, k, item, elapsed,
                   interactions>>

\* line 61: ValueError is caught by no clause of validate
ValidateRaises ==
    /\ pc = "config"
    /\ validate # "None"
    /\ validate \notin Caught
    /\ pc' = "raised"
    /\ last' = Validated(validate)
    /\ UNCHANGED <<product_vars, config_vars, run_released, shifts, slots, belt_iterations,
                   unpicked_components_counter, finished_products_counter,
                   assembled_products_combination, workers, i, k, item, elapsed,
                   interactions>>

\* what a configuration names as a component or as the marker: components,
\* the marker, 'AC', '?', '' and None
AC == <<"A", "C">>
Query == Str("?")
Empty == <<>>
ComponentValues == {A, B, P, AC, Query, Empty, None}
Markers == {P, Query, Empty, <<"P", "1">>}

RECURSIVE ListsOfLen(_, _)
ListsOfLen(values, n) ==
    IF n = 0 THEN {<<>>}
    ELSE {Append(lst, v) : lst \in ListsOfLen(values, n - 1), v \in values}

ComponentLists == UNION {ListsOfLen(ComponentValues, n) : n \in 0..MaxComponents}

ItemLists ==
    { <<A, B, D, None>>, <<A, B, D>>, <<A, AC, Query, Empty, None>>, <<A, B, P, None>> }

ValidateInit ==
    /\ components \in ComponentLists
    /\ items \in ItemLists
    /\ finished_product \in Markers
    /\ belt_length = 0
    /\ belt_iterations = 0
    /\ belt_speed = 0
    /\ assembly_time = 0
    /\ slots = <<>>
    /\ unpicked_components_counter = generate_counter({})
    /\ finished_products_counter = generate_counter({})
    /\ assembled_products_combination = <<>>
    /\ workers = <<>>
    /\ iterations = belt_iterations
    /\ caller = "main"
    /\ pc = "config"
    /\ i = 1
    /\ k = 1
    /\ item = None
    /\ elapsed = 0
    /\ interactions = 0
    /\ shifts = 0
    /\ run = 1
    /\ run_released = <<>>
    /\ last = NoCall

ValidateNext ==
    \/ ValidateReturns
    \/ ValidateExits
    \/ ValidateRaises

ValidateSpec == ValidateInit /\ [][ValidateNext]_vars

-----------------------------------------------------------------------------
(* The scheduling of a sequential program: it takes its next step *)

FairSpec == Spec /\ WF_vars(Next)

-----------------------------------------------------------------------------
(* Claims *)

Returned == pc = "done"

\* the worker the last call was made on, as the call left it
Callee == workers[last.slot][last.k]

\* a left hand that holds a completed assembly: as long as the component list
HoldsCompleted(wk) == wk.left_hand # None /\ Len(wk.left_hand) = Len(components)

\* the number of positions of string s that hold the character of component c
Occurrences(c, s) == Cardinality({n \in 1..Len(s) : Str(s[n]) = c})

\* C1: when run_simulation returns, the unpicked-component counters (with the
\* 'other' bucket) and the finished-product counter add up to the
\* belt_iterations the belt was constructed with.
C1_CountersAddUpToIterations ==
    Returned =>
        SumValues(unpicked_components_counter) + SumValues(finished_products_counter)
            = iterations

\* C2: every string in the results log of a run started with empty hands is as
\* long as the component list and holds each component exactly once.
C2_ReleasedAreComplete ==
    \A n \in 1..Len(assembled_products_combination) :
        LET released == assembled_products_combination[n]
        IN /\ Len(released) = Len(components)
           /\ \A m \in 1..Len(components) : Occurrences(components[m], released) = 1

\* a release has appended the assembly of a worker to the results log
C2_Witness ==
    /\ last.op = "release"
    /\ last.ret = "True"
    /\ Len(assembled_products_combination) > 0
    /\ assembled_products_combination[Len(assembled_products_combination)]
          = last.before.left_hand

\* C3: between reading a slot's item and leaving the slot, at most one worker
\* of the slot picks the item or releases into the slot.
C3_OneInteractionPerSlot == interactions <= 1

\* C4: a release succeeds only when the left hand holds a completed assembly
\* and the slot is empty; otherwise it returns failure and changes neither the
\* slot, nor the results log, nor a hand of the worker.
C4_ReleaseContract ==
    [][last'.op = "release" =>
          LET wk == workers[last'.slot][last'.k]
          IN \/ HoldsCompleted(wk) /\ slots[last'.slot] = None
             \/ /\ last'.ret = "False"
                /\ slots' = slots
                /\ assembled_products_combination' = assembled_products_combination
                /\ workers'[last'.slot][last'.k].left_hand = wk.left_hand
                /\ workers'[last'.slot][last'.k].right_hand = wk.right_hand]_vars

\* C5: run_simulation eventually returns, with the budget used up.
C5_Terminates == <>(Returned /\ ~Continue)

\* a run has returned after releasing a product
C5_Witness == Returned /\ Len(assembled_products_combination) > 0

\* C6: pick_item returns False and leaves both hands as they were when the
\* item is the finished-product marker, is no component, or both hands are
\* occupied.
C6_PickRejected ==
    (/\ last.op = "pick"
     /\ \/ last.item = finished_product
        \/ \A m \in 1..Len(components) : components[m] # last.item
        \/ (last.before.left_hand # None /\ last.before.right_hand # None))
    => /\ last.ret = "False"
       /\ Callee.left_hand = last.before.left_hand
       /\ Callee.right_hand = last.before.right_hand

\* a component was offered to a worker whose hands were both occupied
C6_Witness ==
    /\ last.op = "pick"
    /\ last.item = A
    /\ last.before.left_hand = B
    /\ last.before.right_hand = C
    /\ last.ret = "False"

\* the unit `it` is held in hand `hand`, alone or inside an assembly
Contains(hand, it) == hand # None /\ \E n \in 1..Len(hand) : Str(hand[n]) = it

\* C7: pick_item rejects a component that the worker's other hand contains,
\* leaving the hands as they were; but with a completed assembly in the left
\* hand and an empty right hand, the right hand accepts any component.
C7_NoDuplicateUnit ==
    (/\ last.op = "pick"
     /\ \E m \in 1..Len(components) : components[m] = last.item)
    => LET wk == last.before
       IN IF HoldsCompleted(wk) /\ wk.right_hand = None
          THEN /\ last.ret = "True"
               /\ Callee.right_hand = last.item
               /\ Callee.left_hand = wk.left_hand
          ELSE (\/ wk.right_hand = None /\ Contains(wk.left_hand, last.item)
                \/ wk.left_hand = None /\ Contains(wk.right_hand, last.item))
               => /\ last.ret = "False"
                  /\ Callee.left_hand = wk.left_hand
                  /\ Callee.right_hand = wk.right_hand

\* a component was refused because the partial assembly in the left hand holds it
C7_Witness ==
    /\ last.op = "pick"
    /\ last.ret = "False"
    /\ last.before.right_hand = None
    /\ last.before.left_hand # None
    /\ Len(last.before.left_hand) = 2
    /\ Len(components) = 3
    /\ Contains(last.before.left_hand, last.item)

\* C8: with both hands occupied and no completed assembly in the left hand,
\* assemble makes the left hand the old left hand followed by the old right
\* hand, empties the right hand, and returns 'finished' exactly when the new
\* left hand is as long as the component list, 'intermediate' otherwise.
C8_Assemble ==
    (/\ last.op = "assemble"
     /\ last.ret # "pending"
     /\ last.before.left_hand # None
     /\ last.before.right_hand # None
     /\ ~HoldsCompleted(last.before))
    => /\ Callee.left_hand = last.before.left_hand \o last.before.right_hand
       /\ Callee.right_hand = None
       /\ last.ret = IF Len(Callee.left_hand) = Len(components)
                     THEN "finished" ELSE "intermediate"

\* ('AB', 'C') was assembled into 'ABC'
C8_Witness ==
    /\ last.op = "assemble"
    /\ last.before.left_hand = <<"A", "B">>
    /\ last.before.right_hand = C
    /\ Callee.left_hand = <<"A", "B", "C">>
    /\ last.ret = "finished"

\* the characters of s are components, no two of them the same
DistinctComponents(s) ==
    /\ \A n \in 1..Len(s) : \E m \in 1..Len(components) : components[m] = Str(s[n])
    /\ \A n, m \in 1..Len(s) : n # m => s[n] # s[m]

\* C9: assembled_finished_product returns True exactly for a left hand of
\* distinct components as long as the component list, False for an empty left
\* hand or a shorter one of distinct components, and raises
\* InconsistentProduct for a left hand with a foreign or a repeated character;
\* it changes no hand.
C9_ValidityCheck ==
    last.op = "check" =>
        LET left_hand == last.before.left_hand
        IN /\ last.ret = "True" <=>
                 /\ left_hand # None
                 /\ Len(left_hand) = Len(components)
                 /\ DistinctComponents(left_hand)
           /\ left_hand = None => last.ret = "False"
           /\ (/\ left_hand # None
               /\ DistinctComponents(left_hand)
               /\ Len(left_hand) < Len(components)) => last.ret = "False"
           /\ (left_hand # None /\ ~DistinctComponents(left_hand))
                 => last.ret = "InconsistentProduct"
           /\ Callee = last.before

\* the check raised on 'ABCB'
C9_Witness ==
    /\ last.op = "check"
    /\ last.before.left_hand = <<"A", "B", "C", "B">>
    /\ last.ret = "InconsistentProduct"

\* C10: a successful release writes the marker into the target slot, appends
\* the left-hand string to the end of the results log and empties the left
\* hand; the right hand, the other slots, the counters, the budget and the
\* other workers stay as they were.
C10_ReleaseEffect ==
    [][(last'.op = "release" /\ last'.ret = "True") =>
          LET s == last'.slot
              n == last'.k
          IN /\ slots' = [slots EXCEPT ![s] = finished_product]
             /\ assembled_products_combination' =
                   Append(assembled_products_combination, workers[s][n].left_hand)
             /\ workers'[s][n].left_hand = None
             /\ workers'[s][n].right_hand = workers[s][n].right_hand
             /\ \A s2 \in 1..Len(workers) : \A n2 \in 1..Len(workers[s2]) :
                   (s2 # s \/ n2 # n) => workers'[s2][n2] = workers[s2][n2]
             /\ unpicked_components_counter' = unpicked_components_counter
             /\ finished_products_counter' = finished_products_counter
             /\ belt_iterations' = belt_iterations]_vars

\* a worker of a belt of two slots released while its right hand held the
\* first component of its next product
C10_Witness ==
    /\ last.op = "release"
    /\ last.ret = "True"
    /\ Callee.left_hand = None
    /\ Callee.right_hand # None
    /\ belt_length = 2

\* a string of letters and digits, at least one
Alphanumeric(s) ==
    s # None /\ s # <<>> /\ \A n \in 1..Len(s) : s[n] \in {"A", "B", "C", "P", "1"}

\* the seven violations of a configuration
MarkerNotAlphanumeric == ~Alphanumeric(finished_product)
ComponentNotAlphanumeric == \E n \in 1..Len(components) : ~Alphanumeric(components[n])
ComponentNotOneUnit ==
    \E n \in 1..Len(components) : components[n] = None \/ Len(components[n]) # 1
ComponentIsMarker == \E n \in 1..Len(components) : components[n] = finished_product
ComponentNotInCatalog ==
    \E n \in 1..Len(components) : \A m \in 1..Len(items) : items[m] # components[n]
ComponentDuplicated ==
    \E n, m \in 1..Len(components) : n # m /\ components[n] = components[m]
NoEmptySentinel == \A m \in 1..Len(items) : items[m] # None

ValidConfiguration ==
    ~(\/ MarkerNotAlphanumeric
      \/ ComponentNotAlphanumeric
      \/ ComponentNotOneUnit
      \/ ComponentIsMarker
      \/ ComponentNotInCatalog
      \/ ComponentDuplicated
      \/ NoEmptySentinel)

\* the errors with which validation fails
ConfigValidationErrors ==
    {"ValueError", "InvalidComponent", "DuplicateComponent", "EmptySlotRequired"}

ValidateFailed == last.ret \in ConfigValidationErrors /\ pc \in {"exited", "raised"}

\* C11: validate fails with a configuration-validation error for each of the
\* seven violations (marker not alphanumeric; component not alphanumeric, not
\* one unit long, equal to the marker, absent from the catalog, duplicated; no
\* empty sentinel in the catalog), and raises nothing for a configuration that
\* violates none of them.
C11_ValidateFails ==
    last.op = "validate" =>
        /\ MarkerNotAlphanumeric => ValidateFailed
        /\ ComponentNotAlphanumeric => ValidateFailed
        /\ ComponentNotOneUnit => ValidateFailed
        /\ ComponentIsMarker => ValidateFailed
        /\ ComponentNotInCatalog => ValidateFailed
        /\ ComponentDuplicated => ValidateFailed
        /\ NoEmptySentinel => ValidateFailed
        /\ ValidConfiguration => (last.ret = "None" /\ pc \notin {"exited", "raised"})

\* validation failed on a configuration whose only violation is a duplicated
\* component
C11_Witness ==
    /\ last.op = "validate"
    /\ components = <<A, A>>
    /\ ComponentDuplicated
    /\ ~MarkerNotAlphanumeric /\ ~ComponentNotInCatalog /\ ~NoEmptySentinel
    /\ last.ret = "DuplicateComponent"
    /\ pc = "exited"

\* C12: validating a valid configuration raises nothing and changes neither
\* the items, the components, the marker nor the results, and validating it
\* again has the same outcome.
C12_ValidateIdempotent ==
    [][(last'.op = "validate" /\ ValidConfiguration) =>
          /\ last'.ret = "None"
          /\ pc' \notin {"exited", "raised"}
          /\ items' = items
          /\ components' = components
          /\ finished_product' = finished_product
          /\ assembled_products_combination' = assembled_products_combination
          /\ last.op = "validate" => last'.ret = last.ret]_vars

\* a valid configuration of two components was validated a second time
C12_Witness ==
    /\ pc = "revalidated"
    /\ last.op = "validate"
    /\ last.ret = "None"
    /\ components = <<A, B>>
    /\ ValidConfiguration

\* the belt exits counted so far
CountedExits ==
    SumValues(unpicked_components_counter) + SumValues(finished_products_counter)

\* line 310 has been reached after the last call, on a left hand with a
\* foreign or a repeated character
CheckRaised ==
    /\ last.op \in {"assemble", "release", "pick"}
    /\ last.ret # "pending"
    /\ ~(last.op = "pick" /\ last.ret = "False")
    /\ Callee.left_hand # None
    /\ ~DistinctComponents(Callee.left_hand)

\* C13: when the validity check raises InconsistentProduct in a run, the run
\* is left at once: the step that raises changes no counter, budget or result,
\* and no tick or worker action follows it.
C13_FaultStopsRun ==
    [][/\ pc # "raised"
       /\ CheckRaised' => pc' = "raised"
       /\ pc' = "raised" =>
             /\ unpicked_components_counter' = unpicked_components_counter
             /\ finished_products_counter' = finished_products_counter
             /\ belt_iterations' = belt_iterations
             /\ assembled_products_combination' = assembled_products_combination]_vars

\* the check raised after an assembly during which the belt had moved
C13_Witness ==
    /\ pc = "raised"
    /\ last.op = "assemble"
    /\ CheckRaised
    /\ CountedExits = 2
    /\ belt_iterations = iterations - 2

\* C14: in the state a run is left in by an interruption, the belt exits
\* counted, the budget decrements and the belt shifts are equal in number, and
\* the item a worker picked is no longer in its slot.
C14_InterruptedBetweenMutations ==
    pc = "interrupted" =>
        /\ CountedExits = iterations - belt_iterations
        /\ CountedExits = shifts
        /\ (last.op = "pick" /\ last.ret = "True") => slots[last.slot] = None

\* C15: the sequence run_simulation returns consists of exactly the strings
\* released during that run, in release order; the result of a second run on
\* a new belt holds no string released during the first.
C15_ResultIsOfThisRun ==
    Returned => assembled_products_combination = run_released

\* a step that counts a belt exit, shifts the belt or spends budget
IsTick ==
    \/ shifts' # shifts
    \/ belt_iterations' # belt_iterations
    \/ unpicked_components_counter' # unpicked_components_counter
    \/ finished_products_counter' # finished_products_counter

\* C16: every belt tick, of the outer loop or nested in an assembly, adds one
\* to exactly one counter (the finished-product counter if the last slot held
\* the marker, the component's counter if it held a component, 'other'
\* otherwise) and takes one from the budget; between ticks the budget spent
\* equals the sum of the counters.
C16_OneCountPerTick ==
    [][/\ CountedExits' = iterations' - belt_iterations'
       /\ IsTick =>
             LET last_item == slots[Len(slots)] IN
             /\ shifts' = shifts + 1
             /\ belt_iterations' = belt_iterations - 1
             /\ IF last_item = finished_product
                THEN /\ finished_products_counter' =
                           [finished_products_counter EXCEPT ![last_item] = @ + 1]
                     /\ unpicked_components_counter' = unpicked_components_counter
                ELSE /\ finished_products_counter' = finished_products_counter
                     /\ unpicked_components_counter' =
                           IF \E m \in 1..Len(components) : components[m] = last_item
                           THEN [unpicked_components_counter EXCEPT ![last_item] = @ + 1]
                           ELSE [unpicked_components_counter EXCEPT ![Other] = @ + 1]]_vars

\* a tick nested in an assembly has counted a belt exit, after exits of a
\* component and of another item were counted
C16_Witness ==
    /\ pc \in {"assembling", "assembled"}
    /\ shifts >= 3
    /\ unpicked_components_counter[Other] >= 1
    /\ unpicked_components_counter[A] >= 1
    /\ CountedExits = shifts

\* C17: the budget never drops below zero, and once it is zero no belt tick is
\* performed, neither by the outer loop nor nested in an assembly.
C17_BudgetNeverNegative ==
    [][/\ belt_iterations' >= 0
       /\ belt_iterations <= 0 => shifts' = shifts]_vars

\* C18: a belt tick moves the content of every slot to the next slot, puts an
\* item of the catalog into the first slot and drops the content of the last;
\* the number of slots is the belt length given at construction, and no step
\* changes it.
C18_TickShifts ==
    [][/\ Len(slots) = belt_length
       /\ Len(slots') = belt_length
       /\ belt_length' = belt_length
       /\ shifts' # shifts =>
             /\ \A n \in 1..(belt_length - 1) : slots'[n + 1] = slots[n]
             /\ \E m \in 1..Len(items) : slots'[1] = items[m]]_vars

\* a tick has moved an item left in the first slot to the second
C18_Witness ==
    /\ belt_length = 2
    /\ pc = "for"
    /\ shifts >= 2
    /\ slots[2] = D

\* both hands occupied and no completed assembly in the left hand
Eligible(wk) == wk.left_hand # None /\ wk.right_hand # None /\ ~HoldsCompleted(wk)

\* C19: in each outer tick the slots are visited in ascending order; at each
\* slot every worker, in construction order, makes exactly one attempt: it
\* assembles if eligible; otherwise, if the slot is empty, it attempts a
\* release; otherwise it attempts a pick, and the slot is cleared on success.
C19_OneAttemptPerWorker ==
    [][/\ (pc = "for" /\ pc' = "worker") => (i' = i /\ k' = 1)
       /\ (pc = "worker" /\ pc' = "for") =>
             /\ i' = i + 1
             /\ (IF last'.op = "none" THEN k - 1 ELSE k) = Len(workers[i])
       /\ (pc = "worker" /\ pc' = "worker") => (i' = i /\ k' = k + 1)
       /\ (pc = "worker" /\ k <= Len(workers[i])) =>
             IF Eligible(workers[i][k]) THEN last'.op = "assemble"
             ELSE IF slots[i] = None THEN last'.op = "release"
             ELSE /\ last'.op = "pick"
                  /\ last'.ret = "True" => slots'[i] = None]_vars

\* assemble is called on a worker with an empty hand or with a completed
\* assembly in its left hand
NotEligible(wk) == wk.left_hand = None \/ wk.right_hand = None \/ HoldsCompleted(wk)

\* C20: assemble called on a worker with an empty hand, or with a completed
\* assembly in its left hand, returns None and changes nothing: run_simulation
\* goes on to the release or the pick, no tick is performed, the counters and
\* the budget stay as they were, and when that release or pick fails both
\* hands and the slots are as before the call.
C20_AssembleNothing ==
    [][(pc = "worker" /\ k <= Len(workers[i]) /\ NotEligible(workers[i][k])) =>
          /\ last'.op \in {"release", "pick"}
          /\ pc' \notin {"assembling", "assembled"}
          /\ shifts' = shifts
          /\ belt_iterations' = belt_iterations
          /\ unpicked_components_counter' = unpicked_components_counter
          /\ finished_products_counter' = finished_products_counter
          /\ last'.ret = "False" =>
                /\ workers'[i][k].left_hand = workers[i][k].left_hand
                /\ workers'[i][k].right_hand = workers[i][k].right_hand
                /\ slots' = slots]_vars

\* assemble returned None on a worker that held a completed assembly in its
\* left hand and a component in its right hand
C20_Witness ==
    /\ last.op \in {"release", "pick"}
    /\ HoldsCompleted(last.before)
    /\ last.before.right_hand # None

\* an assemble call is in progress: lines 238-256
InAssembly == pc \in {"assembling", "assembled"}

\* the hands of all workers
Hands == [s \in 1..Len(workers) |->
            [n \in 1..Len(workers[s]) |->
                <<workers[s][n].left_hand, workers[s][n].right_hand>>]]

\* C21: from the start to the end of an assemble call the belt advances while
\* no worker picks or releases: the call changes the hands of the assembling
\* worker only, by the concatenation, and until it returns no hand changes, no
\* call is made and no slot is written except by the shift of the belt.
C21_AssemblyIsUndisturbed ==
    [][/\ (~InAssembly /\ InAssembly') =>
             /\ Hands' = [Hands EXCEPT ![i][k] =
                             <<workers[i][k].left_hand \o workers[i][k].right_hand, None>>]
             /\ slots' = slots
       /\ InAssembly =>
             /\ Hands' = Hands
             /\ assembled_products_combination' = assembled_products_combination
             /\ last'.op = "assemble"
             /\ \/ slots' = slots /\ shifts' = shifts
                \/ /\ shifts' = shifts + 1
                   /\ \A n \in 1..(belt_length - 1) : slots'[n + 1] = slots[n]]_vars

\* the belt has advanced twice during the assembly of a worker that shares
\* its slot, on a belt of two slots
C21_Witness ==
    /\ InAssembly
    /\ belt_length = 2
    /\ Len(workers[1]) = 2
    /\ last.op = "assemble"
    /\ shifts = last.shifts_before + 2

\* the nested ticks of the assemble call that has just returned
NestedTicks == shifts - last.shifts_before

\* C22: an assembly of duration N advances the belt exactly N times through
\* nested ticks, or fewer only when the budget reached zero first; with N = 0
\* it performs no nested tick.
C22_NestedTicksEqualDuration ==
    (last.op = "assemble" /\ last.ret \in {"finished", "intermediate"}) =>
        \/ NestedTicks = assembly_time
        \/ NestedTicks < assembly_time /\ belt_iterations = 0

\* a tick that puts new_item on the belt: the only input of a run apart from
\* its configuration is the item that line 140 generates
TickWith(new_item) == Next /\ shifts' = shifts + 1 /\ slots'[1] = new_item

\* the assemble call in progress goes on to another nested tick (line 250)
AssemblyGoesOn == pc = "assembling" /\ Assembling

\* C23: a run is determined by its configuration and the sequence of generated
\* items: from one state, two ticks that generate the same item cannot differ
\* in whether the assembly in progress moves the belt again or returns.
C23_Deterministic ==
    \A new_item \in Choices :
        ~ /\ ENABLED (TickWith(new_item) /\ AssemblyGoesOn')
          /\ ENABLED (TickWith(new_item) /\ ~AssemblyGoesOn')

\* the length of a hand, an empty hand counting as 0
HandLen(hand) == IF hand = None THEN 0 ELSE Len(hand)

\* a left hand is empty or made of distinct components, no more than there are
LeftHandShaped(wk) ==
    \/ wk.left_hand = None
    \/ DistinctComponents(wk.left_hand) /\ Len(wk.left_hand) <= Len(components)

\* the flag says whether the left hand has as many characters as components
FlagAgrees(wk) == wk.holds_finished_product <=> HandLen(wk.left_hand) = Len(components)

\* a left hand gets shorter only in a successful release of its worker
ShrinksByReleaseOnly ==
    \A s \in 1..Len(workers) : \A n \in 1..Len(workers[s]) :
        HandLen(workers'[s][n].left_hand) < HandLen(workers[s][n].left_hand) =>
            /\ last'.op = "release" /\ last'.ret = "True"
            /\ last'.slot = s /\ last'.k = n

\* C24 as stated: in every reachable state of a run started with empty hands
\* every left hand is empty or a string of distinct components no longer than
\* the component list, it gets shorter only by a release, and it has the
\* length of the component list exactly when the worker is marked as holding
\* a finished product.
C24_LeftHandInvariant ==
    [][/\ \A s \in 1..Len(workers) : \A n \in 1..Len(workers[s]) :
             /\ LeftHandShaped(workers[s][n]) /\ LeftHandShaped(workers'[s][n])
             /\ FlagAgrees(workers[s][n]) /\ FlagAgrees(workers'[s][n])
       /\ ShrinksByReleaseOnly]_vars

\* worker n of slot s is inside an assemble call: its hands are joined, its
\* flag is not yet updated by line 310
IsAssembling(s, n) == InAssembly /\ s = i /\ n = k

\* C24 (amended): as C24, the flag agreeing with the left hand in every state
\* in which the worker is not inside an assemble call.
C24_LeftHandInvariantOutsideAssembly ==
    [][/\ \A s \in 1..Len(workers) : \A n \in 1..Len(workers[s]) :
             /\ LeftHandShaped(workers[s][n]) /\ LeftHandShaped(workers'[s][n])
             /\ ~IsAssembling(s, n) => FlagAgrees(workers[s][n])
             /\ ~IsAssembling(s, n)' => FlagAgrees(workers'[s][n])
       /\ ShrinksByReleaseOnly]_vars

\* a worker has just released its product and is unmarked, the worker that
\* shares its slot still holds a marked, complete product
C24_Witness ==
    /\ last.op = "release" /\ last.ret = "True"
    /\ last.before.holds_finished_product
    /\ Callee.left_hand = None /\ ~Callee.holds_finished_product
    /\ \E n \in 1..Len(workers[last.slot]) :
          /\ workers[last.slot][n].holds_finished_product
          /\ HandLen(workers[last.slot][n].left_hand) = Len(components)

\* a right hand is empty or holds one component
RightHandShaped(wk) ==
    \/ wk.right_hand = None
    \/ Len(wk.right_hand) = 1 /\ InList(wk.right_hand, components)

\* the worker as the accepted pick of item it leaves it, given the worker
\* before: the item is in the hand that was empty, the right hand when both
\* were, and the other hand is as it was
PlacedInEmptyHand(before, after, it) ==
    IF before.right_hand = None
    THEN after.right_hand = it /\ after.left_hand = before.left_hand
    ELSE /\ before.left_hand = None
         /\ after.left_hand = it /\ after.right_hand = before.right_hand

\* C25: an accepted pick places the component in the hand that is empty, the
\* right hand when both are, and changes no other hand; in every state of a
\* run the right hand of every worker is empty or a single component.
C25_PickPlacement ==
    [][/\ (last'.op = "pick" /\ last'.ret = "True") =>
             /\ PlacedInEmptyHand(last'.before, workers'[last'.slot][last'.k], last'.item)
             /\ Hands' = [Hands EXCEPT ![last'.slot][last'.k] =
                             <<workers'[last'.slot][last'.k].left_hand,
                               workers'[last'.slot][last'.k].right_hand>>]
       /\ \A s \in 1..Len(workers) : \A n \in 1..Len(workers[s]) :
             RightHandShaped(workers[s][n]) /\ RightHandShaped(workers'[s][n])]_vars

\* a worker with an intermediate product in the left hand has picked a
\* component into its right hand
C25_Witness ==
    /\ last.op = "pick" /\ last.ret = "True"
    /\ last.before.left_hand # None /\ ~last.before.holds_finished_product
    /\ last.before.right_hand = None
    /\ Callee.right_hand = last.item
    /\ Callee.left_hand = last.before.left_hand
    /\ Len(Callee.left_hand) = 2

\* the scheduler is between worker actions: not inside a tick or an assembly
BetweenActions == pc \in {"while", "for", "worker", "done"}

\* the slots that hold the finished-product marker
MarkerSlots == {n \in 1..Len(slots) : slots[n] = finished_product}

\* C26: finished products are conserved: between worker actions the number of
\* products released in the run is the number counted off the end of the belt
\* plus the number of slots that hold the marker.
C26_FinishedProductsConserved ==
    (BetweenActions /\ ~InList(finished_product, items)) =>
        Len(run_released) =
            finished_products_counter[finished_product] + Cardinality(MarkerSlots)

\* C27: when the scheduler clears a slot after a successful pick the slot
\* holds the item the worker picked, and when it lets a worker release the
\* slot is empty.
C27_SlotMatchesItem ==
    /\ (last.op = "pick" /\ last.ret = "True") => last.slot_before = last.item
    /\ (last.op = "release" /\ last.ret = "True") => last.slot_before = None

\* C28: in a run started from empty hands and a valid configuration the
\* validity check never raises InconsistentProduct: no left hand ever fails
\* it, and the run never stops in the raised state.
C28_CheckNeverRaises ==
    /\ pc # "raised"
    /\ \A s \in 1..Len(workers) : \A n \in 1..Len(workers[s]) :
          assembled_finished_product(workers[s][n]) # "InconsistentProduct"

\* the check of line 310 has passed a product of three components that a
\* worker has just assembled
C28_Witness ==
    /\ last.op = "assemble" /\ last.ret = "finished"
    /\ pc = "worker"
    /\ Len(components) = 3
    /\ assembled_finished_product(Callee) = "True"
    /\ Callee.holds_finished_product

=============================================================================
